---- MODULE Spec2Model ----
(***************************************************************************)
(* State-machine model of the token-crafting map game (the final iteration *)
(* of main.ts, src/unnamed/part_000).                                      *)
(*                                                                         *)
(* Conventions.                                                            *)
(*  - Continuous latitudes/longitudes are measured from CLASSROOM_LATLNG   *)
(*    in sub-units of half a tile (TILE_DEGREES is 2 sub-units).              *)
(*  - A cell key "i,j" is the pair <<i, j>>.                               *)
(*  - `number | null` is a sequence of length <= 1: <<>> is null,          *)
(*    <<v>> is the number v.  A Map is a function on the set of its keys.  *)
(*  - luck() (./_luck.ts) is a seeded hash into [0,1); it is represented   *)
(*    in thousandths, by a table per seed.                                 *)
(*  - A click on a popup button is one event: the popup is opened on the   *)
(*    layer and the button pressed; popups do not stay open across events. *)
(***************************************************************************)
EXTENDS Integers, FiniteSets, Sequences, TLC

VARIABLES
    seed,            \* which luck table the run uses (fixed after Init)
    playerPos,       \* playerMarker.getLatLng(), <<lat, lng>> in sub-units
    mapCenter,       \* centre of map.getBounds(), <<lat, lng>> in sub-units
    panPending,      \* a panTo animation is running, its moveend not yet fired
    inventory,       \* number | null
    caches,          \* key -> value of the tracked cache marker
    modifiedCaches,  \* key -> number | null
    cellRecords,     \* key -> what popup drawCell bound to the rectangle
    orphanMarkers,   \* keys with a circle marker on the map no map tracks
    hasCrafted,      \* win flag
    msg,             \* what the last event wrote to its popup's message line
    drawnNear,       \* history: key -> whether the player was within the
                     \* radius of the cell when the tracked marker of key
                     \* was put on the map (kept by SpecHist)
    expected,        \* history: key -> the content the last successful
                     \* request on the cell left there (kept by SpecHist)
    inventoryList,   \* the inventory of the earlier variant of the page that
                     \* carries a list of tokens: number[] (SpecCraft)
    craftResult      \* what the last doCraft call returned, <<>> before any
                     \* (SpecCraft)

vars == <<seed, playerPos, mapCenter, panPending, inventory, caches,
          modifiedCaches, cellRecords, orphanMarkers, hasCrafted, msg,
          drawnNear, expected, inventoryList, craftResult>>

(***************************** bounds **************************************)
\* the player walks on the cells 0..MaxLat x 0..MaxLng
MaxLat == 1
MaxLng == 1
\* half the height / width of the map window, in sub-units
ViewHalfLat == 1
ViewHalfLng == 3
\* the longest list the list inventory is let grow to
MaxInventory == 4

(************************* program constants *******************************)
\* 1e-4 degrees, in sub-units
TILE_DEGREES == 2
PROXIMITY_CELLS == 1
WIN_THRESHOLD == 5
\* 0.1, in thousandths
CACHE_SPAWN_PROBABILITY == 100

\* the luck tables tried
Seeds == {1, 2, 3}
\* the luck table with four equal tokens, for games that go on after the win
RepeatSeeds == {4}

None == <<>>
Some(v) == <<v>>

Abs(x) == IF x < 0 THEN -x ELSE x
Max(a, b) == IF a >= b THEN a ELSE b

\* Math.round(x / TILE_DEGREES): nearest integer, halves rounded up
RoundDiv(x) == (2 * x + TILE_DEGREES) \div (2 * TILE_DEGREES)
\* Math.ceil(x / TILE_DEGREES)
FloorDiv_ceil(x) == -((-x) \div TILE_DEGREES)
\* Math.floor(x / TILE_DEGREES)
FloorDiv(x) == x \div TILE_DEGREES

latLngToCell(pos) == <<RoundDiv(pos[1]), RoundDiv(pos[2])>>

getPlayerCell == latLngToCell(playerPos)

\* a distance that adds the two axes
cellDistance_manhattan(a, b) == Abs(a[1] - b[1]) + Abs(a[2] - b[2])

cellDistance(a, b) == Max(Abs(a[1] - b[1]), Abs(a[2] - b[2]))

cellKey(i, j) == <<i, j>>

(******************************* luck *************************************)
\* Per seed, the cells whose two hashes are fixed by hand:
\* cell -> <<luck("i,j"), luck("i,j,initialValue")>>, in thousandths.
LuckTable(s) ==
    IF s = 1
    THEN (<<1, 0>> :> <<0, 300>>) @@ (<<-1, 1>> :> <<99, 599>>)
         @@ (<<0, -1>> :> <<50, 600>>) @@ (<<0, 1>> :> <<100, 0>>)
    ELSE IF s = 2
    THEN (<<0, 2>> :> <<10, 899>>) @@ (<<1, 1>> :> <<99, 600>>)
         @@ (<<-1, -1>> :> <<42, 970>>)
    ELSE IF s = 3
    THEN (<<1, -1>> :> <<5, 900>>) @@ (<<0, 1>> :> <<60, 995>>)
         @@ (<<-1, 0>> :> <<42, 899>>) @@ (<<0, 0>> :> <<999, 994>>)
    ELSE (<<1, 0>> :> <<7, 970>>) @@ (<<1, 1>> :> <<21, 980>>)
         @@ (<<0, 1>> :> <<63, 994>>) @@ (<<0, 0>> :> <<98, 975>>)

\* luck([i, j].toString())
luckCell(s, i, j) ==
    IF <<i, j>> \in DOMAIN LuckTable(s)
    THEN LuckTable(s)[<<i, j>>][1]
    ELSE CACHE_SPAWN_PROBABILITY + ((7 * i + 13 * j + s) % 900)

\* luck([i, j, "initialValue"].toString())
luckValue(s, i, j) ==
    IF <<i, j>> \in DOMAIN LuckTable(s)
    THEN LuckTable(s)[<<i, j>>][2]
    ELSE (31 * i + 17 * j + s) % 1000

(***************************** drawCell ************************************)
\* The value tiers of an unmodified cache, from luck(...) in thousandths
cacheValue(r) ==
    IF r < 600 THEN 1
    ELSE IF r < 900 THEN 2
    ELSE IF r < 970 THEN 3
    ELSE IF r < 995 THEN 4
    ELSE 5

\* drawCell asking the generator first, the overlay only for generator-empty cells
drawCellCache_generatorFirst(s, mod, i, j) ==
    LET key == cellKey(i, j) IN
    IF luckCell(s, i, j) < CACHE_SPAWN_PROBABILITY
    THEN Some(cacheValue(luckValue(s, i, j)))
    ELSE IF key \in DOMAIN mod THEN mod[key] ELSE None

\* a drawCell whose generator spawns nothing while the player carries a token
drawCellCache_whileCarrying(s, mod, i, j) ==
    LET key == cellKey(i, j) IN
    IF key \in DOMAIN mod
    THEN mod[key]
    ELSE IF luckCell(s, i, j) < CACHE_SPAWN_PROBABILITY /\ inventory = None
         THEN Some(cacheValue(luckValue(s, i, j)))
         ELSE None

\* The cache drawCell(i, j) puts on the map: <<v>>, or <<>> when it puts none
drawCellCache(s, mod, i, j) ==
    LET key == cellKey(i, j) IN
    IF key \in DOMAIN mod
    THEN mod[key]
    ELSE IF luckCell(s, i, j) < CACHE_SPAWN_PROBABILITY
         THEN Some(cacheValue(luckValue(s, i, j)))
         ELSE None

\* drawCell binding the drop popup to every rectangle without a cache
drawCellPopup_dropAnywhere(s, mod, i, j) ==
    LET key == cellKey(i, j) IN
    IF key \in DOMAIN mod
    THEN IF mod[key] = None THEN "drop" ELSE "none"
    ELSE IF luckCell(s, i, j) < CACHE_SPAWN_PROBABILITY
         THEN "none"
         ELSE "drop"

\* The popup drawCell(i, j) binds to the rectangle
drawCellPopup(s, mod, i, j) ==
    LET key == cellKey(i, j) IN
    IF key \in DOMAIN mod
    THEN IF mod[key] = None THEN "drop" ELSE "none"
    ELSE IF luckCell(s, i, j) < CACHE_SPAWN_PROBABILITY
         THEN "none"
         ELSE "info"

\* an updateCacheMarkerColor that looks at the distance only
markerStroke_byDistance(key, pos, inv) ==
    IF cellDistance(latLngToCell(pos), key) <= PROXIMITY_CELLS
    THEN "green" ELSE "grey"

\* Stroke updateCacheMarkerColor gives the marker of `key`
markerStroke(key, pos, inv) ==
    LET dist == cellDistance(latLngToCell(pos), key)
        pickable == dist <= PROXIMITY_CELLS /\ inv = None
    IN IF pickable THEN "green" ELSE "grey"

\* updateAllCacheColors over a caches map
updateAllCacheColors(cs, pos, inv) ==
    [k \in DOMAIN cs |-> [value |-> cs[k].value,
                          stroke |-> markerStroke(k, pos, inv)]]

\* Map.delete
MapDelete(m, k) == [x \in DOMAIN m \ {k} |-> m[x]]
\* Map.set
MapSet(m, k, v) == [x \in DOMAIN m \cup {k} |-> IF x = k THEN v ELSE m[x]]

\* a drawCell that writes the content it drew into the overlay
drawCells_storeDrawn(st, pos, keys) ==
    LET withCache == {k \in keys :
                        drawCellCache(seed, st.mod, k[1], k[2]) /= None}
    IN [recs |-> [k \in DOMAIN st.recs \cup keys |->
                    IF k \in keys
                    THEN drawCellPopup(seed, st.mod, k[1], k[2])
                    ELSE st.recs[k]],
        caches |-> [k \in DOMAIN st.caches \cup withCache |->
                    IF k \in withCache
                    THEN [value |-> drawCellCache(seed, st.mod, k[1], k[2])[1],
                          stroke |-> markerStroke(k, pos, inventory)]
                    ELSE st.caches[k]],
        orphans |-> st.orphans \cup (withCache \cap DOMAIN st.caches),
        mod |-> [k \in DOMAIN st.mod \cup withCache |->
                   IF k \in DOMAIN st.mod THEN st.mod[k]
                   ELSE drawCellCache(seed, st.mod, k[1], k[2])]]

\* A store is the state [recs, caches, orphans, mod] the cell functions read
\* and write: cellRecords, caches, the untracked markers, modifiedCaches.
\* drawCell(i, j) followed by cellRecords.set, for every cell of `keys`
drawCells(st, pos, keys) ==
    LET withCache == {k \in keys :
                        drawCellCache(seed, st.mod, k[1], k[2]) /= None}
    IN [recs |-> [k \in DOMAIN st.recs \cup keys |->
                    IF k \in keys
                    THEN drawCellPopup(seed, st.mod, k[1], k[2])
                    ELSE st.recs[k]],
        caches |-> [k \in DOMAIN st.caches \cup withCache |->
                    IF k \in withCache
                    THEN [value |-> drawCellCache(seed, st.mod, k[1], k[2])[1],
                          stroke |-> markerStroke(k, pos, inventory)]
                    ELSE st.caches[k]],
        orphans |-> st.orphans \cup (withCache \cap DOMAIN st.caches),
        mod |-> st.mod]

\* cellRendered(i, j) for every cell of `keys`
cellsRendered(st, pos, keys) ==
    drawCells(st, pos, {k \in keys : k \notin DOMAIN st.recs})

cellRendered(st, pos, i, j) == cellsRendered(st, pos, {cellKey(i, j)})

\* removeCell that also forgets what the player did to the cell
removeCells_forget(st, keys) ==
    [recs |-> [k \in DOMAIN st.recs \ keys |-> st.recs[k]],
     caches |-> [k \in DOMAIN st.caches \ keys |-> st.caches[k]],
     orphans |-> st.orphans,
     mod |-> [k \in DOMAIN st.mod \ keys |-> st.mod[k]]]

\* a removeCell that, finding no record, clears a marker left behind on the cell
removeCells_sweep(st, keys) ==
    [recs |-> [k \in DOMAIN st.recs \ keys |-> st.recs[k]],
     caches |-> [k \in DOMAIN st.caches \ keys |-> st.caches[k]],
     orphans |-> st.orphans \ {k \in keys : k \notin DOMAIN st.recs},
     mod |-> st.mod]

\* a removeCell that removes nothing
removeCells_none(st, keys) == st

\* removeCell(i, j) for every cell of `keys`
removeCells(st, keys) ==
    [recs |-> [k \in DOMAIN st.recs \ keys |-> st.recs[k]],
     caches |-> [k \in DOMAIN st.caches \ keys |-> st.caches[k]],
     orphans |-> st.orphans,
     mod |-> st.mod]

removeCell(st, i, j) == removeCells(st, {cellKey(i, j)})

(************************* updateVisibleCells ******************************)
southMin(center) == FloorDiv(center[1] - ViewHalfLat)
northMax(center) == FloorDiv(center[1] + ViewHalfLat)
westMin(center) == FloorDiv(center[2] - ViewHalfLng)
eastMax(center) == FloorDiv(center[2] + ViewHalfLng)

\* the `wanted` set of updateVisibleCells for a map centred at `center`
Wanted(center) ==
    {cellKey(i, j) : i \in southMin(center)..northMax(center),
                     j \in westMin(center)..eastMax(center)}

\* an updateVisibleCells that draws every wanted cell anew
updateVisibleCells_redrawAll(st, pos, center) ==
    LET wanted == Wanted(center)
        rendered == drawCells(st, pos, wanted)
        kept == removeCells(rendered,
                            {k \in DOMAIN rendered.recs : k \notin wanted})
    IN [recs |-> kept.recs,
        caches |-> updateAllCacheColors(kept.caches, pos, inventory),
        orphans |-> kept.orphans,
        mod |-> kept.mod]

\* the store after updateVisibleCells() with the player at `pos` and the map
\* centred at `center`
updateVisibleCells(st, pos, center) ==
    LET wanted == Wanted(center)
        rendered == cellsRendered(st, pos,
                                  {k \in wanted : k \notin DOMAIN st.recs})
        kept == removeCells(rendered,
                            {k \in DOMAIN rendered.recs : k \notin wanted})
    IN [recs |-> kept.recs,
        caches |-> updateAllCacheColors(kept.caches, pos, inventory),
        orphans |-> kept.orphans,
        mod |-> kept.mod]

Store == [recs |-> cellRecords, caches |-> caches, orphans |-> orphanMarkers,
          mod |-> modifiedCaches]

EmptyMap == [x \in {} |-> None]

(******************************* events ************************************)
\* where the player may stand: the cells of the two streets through the
\* start cell, 0..MaxLat to the north and 0..MaxLng to the east
InBox(pos) ==
    /\ pos[1] >= 0 /\ pos[1] <= MaxLat * TILE_DEGREES
    /\ pos[2] >= 0 /\ pos[2] <= MaxLng * TILE_DEGREES
    /\ (pos[1] = 0 \/ pos[2] = 0)

\* where the user may drag the centre of the map: onto the centre of a cell
\* the player may stand on
DragCenters ==
    {c \in {<<a * TILE_DEGREES, b * TILE_DEGREES>> :
               a \in 0..MaxLat, b \in 0..MaxLng} : InBox(c)}

\* cells a click can address: every cell some map window shows
Cells == UNION {Wanted(c) : c \in DragCenters}

\* the rendering state becomes `st`
SetStore(st) ==
    /\ cellRecords' = st.recs
    /\ caches' = st.caches
    /\ orphanMarkers' = st.orphans
    /\ modifiedCaches' = st.mod

\* module start-up, up to the first updateVisibleCells() call, in one of
\* the given worlds
StartUp(worlds) ==
    /\ seed \in worlds
    /\ playerPos = <<0, 0>>
    /\ mapCenter = <<0, 0>>
    /\ panPending = FALSE
    /\ inventory = None
    /\ hasCrafted = FALSE
    /\ msg = <<"none">>
    /\ LET first == updateVisibleCells(
                        [recs |-> EmptyMap, caches |-> EmptyMap,
                         orphans |-> {}, mod |-> EmptyMap],
                        <<0, 0>>, <<0, 0>>)
       IN /\ cellRecords = first.recs
          /\ caches = first.caches
          /\ orphanMarkers = first.orphans
          /\ modifiedCaches = first.mod
    /\ drawnNear = [k \in DOMAIN caches |->
                      cellDistance(<<0, 0>>, k) <= PROXIMITY_CELLS]
    /\ expected = EmptyMap
    /\ inventoryList = <<>>
    /\ craftResult = <<>>

Init == StartUp(Seeds)

InitRepeat == StartUp(RepeatSeeds)

movePlayerByCells_swapAxes(latitudeUpdate, longitudeUpdate) ==
    LET newPos == <<playerPos[1] + longitudeUpdate * TILE_DEGREES,
                    playerPos[2] + latitudeUpdate * TILE_DEGREES>>
    IN /\ InBox(newPos)
       /\ playerPos' = newPos
       /\ panPending' = TRUE
       /\ SetStore(updateVisibleCells(Store, newPos, mapCenter))
       /\ msg' = <<"none">>
       /\ UNCHANGED <<seed, mapCenter, inventory, hasCrafted>>

\* keydown w/s/a/d: movePlayerByCells(latitudeUpdate, longitudeUpdate)
movePlayerByCells(latitudeUpdate, longitudeUpdate) ==
    LET newPos == <<playerPos[1] + latitudeUpdate * TILE_DEGREES,
                    playerPos[2] + longitudeUpdate * TILE_DEGREES>>
    IN /\ InBox(newPos)
       /\ playerPos' = newPos
       /\ panPending' = TRUE
       /\ SetStore(updateVisibleCells(Store, newPos, mapCenter))
       /\ msg' = <<"none">>
       /\ UNCHANGED <<seed, mapCenter, inventory, hasCrafted>>

KeyW == movePlayerByCells(1, 0)
KeyS == movePlayerByCells(-1, 0)
KeyA == movePlayerByCells(0, -1)
KeyD == movePlayerByCells(0, 1)

MoveEnd_noUpdate ==
    /\ panPending
    /\ mapCenter' = playerPos
    /\ panPending' = FALSE
    /\ msg' = <<"none">>
    /\ UNCHANGED <<seed, playerPos, inventory, hasCrafted, cellRecords,
                   caches, orphanMarkers, modifiedCaches>>

\* map.on("moveend") at the end of the pan started by panTo
MoveEnd ==
    /\ panPending
    /\ mapCenter' = playerPos
    /\ panPending' = FALSE
    /\ SetStore(updateVisibleCells(Store, playerPos, playerPos))
    /\ msg' = <<"none">>
    /\ UNCHANGED <<seed, playerPos, inventory, hasCrafted>>

\* map.on("moveend") after the user dragged the map to centre c
DragMap(c) ==
    /\ c /= mapCenter
    /\ mapCenter' = c
    /\ panPending' = FALSE
    /\ SetStore(updateVisibleCells(Store, playerPos, c))
    /\ msg' = <<"none">>
    /\ UNCHANGED <<seed, playerPos, inventory, hasCrafted>>

\* a handler deciding by where the player stood when the marker was drawn
requestDistance_atDraw(i, j) ==
    LET dist == cellDistance(getPlayerCell, <<i, j>>) IN
    IF cellKey(i, j) \in DOMAIN drawnNear
    THEN IF drawnNear[cellKey(i, j)]
         THEN IF dist <= PROXIMITY_CELLS THEN dist ELSE PROXIMITY_CELLS
         ELSE IF dist > PROXIMITY_CELLS THEN dist ELSE PROXIMITY_CELLS + 1
    ELSE dist

\* const dist = cellDistance(getPlayerCell(), [i, j]) of a click handler
requestDistance(i, j) == cellDistance(getPlayerCell, <<i, j>>)

\* a pickup handler that swaps the carried token for the cell's
Pickup_swap(i, j) ==
    LET key == cellKey(i, j)
        dist == requestDistance(i, j)
    IN /\ key \in DOMAIN caches
       /\ IF dist <= PROXIMITY_CELLS
          THEN /\ inventory' = Some(caches[key].value)
               /\ modifiedCaches' = MapSet(modifiedCaches, key, inventory)
               /\ caches' = updateAllCacheColors(
                                IF inventory = None THEN MapDelete(caches, key)
                                ELSE MapSet(caches, key,
                                            [value |-> inventory[1],
                                             stroke |-> caches[key].stroke]),
                                playerPos, Some(caches[key].value))
               /\ msg' = <<"Picked up.">>
          ELSE /\ msg' = <<"Too far to pick up", dist>>
               /\ UNCHANGED <<inventory, modifiedCaches, caches>>
       /\ UNCHANGED <<seed, playerPos, mapCenter, panPending, cellRecords,
                      orphanMarkers, hasCrafted>>

\* a pickup handler that takes the token and leaves the overlay alone
Pickup_noOverlay(i, j) ==
    LET key == cellKey(i, j)
        dist == requestDistance(i, j)
    IN /\ key \in DOMAIN caches
       /\ IF dist <= PROXIMITY_CELLS /\ inventory = None
          THEN /\ inventory' = Some(caches[key].value)
               /\ caches' = updateAllCacheColors(MapDelete(caches, key),
                                playerPos, Some(caches[key].value))
               /\ msg' = <<"Picked up.">>
          ELSE /\ msg' = IF dist <= PROXIMITY_CELLS
                         THEN <<"You're already carrying a token.">>
                         ELSE <<"Too far to pick up", dist>>
               /\ UNCHANGED <<inventory, caches>>
       /\ UNCHANGED <<seed, playerPos, mapCenter, panPending, cellRecords,
                      orphanMarkers, hasCrafted, modifiedCaches>>

\* a pickup handler that marks the emptied cell with the value 0
Pickup_zero(i, j) ==
    LET key == cellKey(i, j)
        dist == requestDistance(i, j)
    IN /\ key \in DOMAIN caches
       /\ IF dist <= PROXIMITY_CELLS
          THEN IF inventory = None
               THEN /\ inventory' = Some(caches[key].value)
                    /\ modifiedCaches' = MapSet(modifiedCaches, key, Some(0))
                    /\ caches' = updateAllCacheColors(MapDelete(caches, key),
                                     playerPos, Some(caches[key].value))
                    /\ msg' = <<"Picked up.">>
               ELSE /\ msg' = <<"You're already carrying a token.">>
                    /\ UNCHANGED <<inventory, modifiedCaches, caches>>
          ELSE /\ msg' = <<"Too far to pick up", dist>>
               /\ UNCHANGED <<inventory, modifiedCaches, caches>>
       /\ UNCHANGED <<seed, playerPos, mapCenter, panPending, cellRecords,
                      orphanMarkers, hasCrafted>>

\* a pickup handler that declares the win on a token at the threshold
Pickup_winsAtThreshold(i, j) ==
    LET key == cellKey(i, j)
        dist == requestDistance(i, j)
    IN /\ key \in DOMAIN caches
       /\ IF dist <= PROXIMITY_CELLS
          THEN IF inventory = None
               THEN /\ inventory' = Some(caches[key].value)
                    /\ modifiedCaches' = MapSet(modifiedCaches, key, None)
                    /\ caches' = updateAllCacheColors(MapDelete(caches, key),
                                     playerPos, Some(caches[key].value))
                    /\ hasCrafted' = IF caches[key].value >= WIN_THRESHOLD
                                     THEN TRUE ELSE hasCrafted
                    /\ msg' = <<"Picked up.">>
               ELSE /\ msg' = <<"You're already carrying a token.">>
                    /\ UNCHANGED <<inventory, modifiedCaches, caches,
                                   hasCrafted>>
          ELSE /\ msg' = <<"Too far to pick up", dist>>
               /\ UNCHANGED <<inventory, modifiedCaches, caches, hasCrafted>>
       /\ UNCHANGED <<seed, playerPos, mapCenter, panPending, cellRecords,
                      orphanMarkers>>

\* the pickup button of the popup of the cache marker of cell <<i, j>>
\* (the three copies of the handler in drawCell are the same)
Pickup(i, j) ==
    LET key == cellKey(i, j)
        dist == requestDistance(i, j)
    IN /\ key \in DOMAIN caches
       /\ IF dist <= PROXIMITY_CELLS
          THEN IF inventory = None
               THEN /\ inventory' = Some(caches[key].value)
                    /\ modifiedCaches' = MapSet(modifiedCaches, key, None)
                    /\ caches' = updateAllCacheColors(MapDelete(caches, key),
                                     playerPos, Some(caches[key].value))
                    /\ msg' = <<"Picked up.">>
               ELSE /\ msg' = <<"You're already carrying a token.">>
                    /\ UNCHANGED <<inventory, modifiedCaches, caches>>
          ELSE /\ msg' = <<"Too far to pick up", dist>>
               /\ UNCHANGED <<inventory, modifiedCaches, caches>>
       /\ UNCHANGED <<seed, playerPos, mapCenter, panPending, cellRecords,
                      orphanMarkers, hasCrafted>>

\* a triggerWin that never sets the flag
triggerWin_noop(won) == won

\* the win flag after triggerWin()
triggerWin(won) == IF won THEN won ELSE TRUE

\* a place handler that puts the carried token over an unequal resident one
Place_overMismatch(i, j) ==
    LET key == cellKey(i, j)
        dist == requestDistance(i, j)
    IN /\ key \in DOMAIN caches
       /\ IF dist > PROXIMITY_CELLS
          THEN /\ msg' = <<"Too far to place", dist>>
               /\ UNCHANGED <<inventory, modifiedCaches, caches, hasCrafted>>
          ELSE IF inventory = None
          THEN /\ msg' = <<"You have no token to place.">>
               /\ UNCHANGED <<inventory, modifiedCaches, caches, hasCrafted>>
          ELSE LET crafted == IF inventory[1] = caches[key].value
                              THEN caches[key].value * 2
                              ELSE inventory[1] IN
               /\ modifiedCaches' = MapSet(modifiedCaches, key, Some(crafted))
               /\ inventory' = None
               /\ caches' = updateAllCacheColors(
                                MapSet(caches, key,
                                       [value |-> crafted,
                                        stroke |-> caches[key].stroke]),
                                playerPos, None)
               /\ msg' = <<"Placed token and crafted", crafted>>
               /\ hasCrafted' = IF ~hasCrafted /\ crafted >= WIN_THRESHOLD
                                THEN TRUE ELSE hasCrafted
       /\ UNCHANGED <<seed, playerPos, mapCenter, panPending, cellRecords,
                      orphanMarkers>>

\* a place handler that doubles the resident token when nothing is carried
Place_fromNothing(i, j) ==
    LET key == cellKey(i, j)
        dist == requestDistance(i, j)
    IN /\ key \in DOMAIN caches
       /\ IF dist > PROXIMITY_CELLS
          THEN /\ msg' = <<"Too far to place", dist>>
               /\ UNCHANGED <<inventory, modifiedCaches, caches, hasCrafted>>
          ELSE IF inventory = None \/ inventory = Some(caches[key].value)
          THEN LET crafted == caches[key].value * 2 IN
               /\ modifiedCaches' = MapSet(modifiedCaches, key, Some(crafted))
               /\ inventory' = None
               /\ caches' = updateAllCacheColors(
                                MapSet(caches, key,
                                       [value |-> crafted,
                                        stroke |-> caches[key].stroke]),
                                playerPos, None)
               /\ msg' = <<"Placed token and crafted", crafted>>
               /\ hasCrafted' = IF ~hasCrafted /\ crafted >= WIN_THRESHOLD
                                THEN TRUE ELSE hasCrafted
          ELSE /\ msg' = <<"Token values do not match; cannot place here.">>
               /\ UNCHANGED <<inventory, modifiedCaches, caches, hasCrafted>>
       /\ UNCHANGED <<seed, playerPos, mapCenter, panPending, cellRecords,
                      orphanMarkers>>

\* a place handler that flips the win flag at every merge reaching the threshold
Place_togglesWin(i, j) ==
    LET key == cellKey(i, j)
        dist == requestDistance(i, j)
    IN /\ key \in DOMAIN caches
       /\ IF dist > PROXIMITY_CELLS
          THEN /\ msg' = <<"Too far to place", dist>>
               /\ UNCHANGED <<inventory, modifiedCaches, caches, hasCrafted>>
          ELSE IF inventory = None
          THEN /\ msg' = <<"You have no token to place.">>
               /\ UNCHANGED <<inventory, modifiedCaches, caches, hasCrafted>>
          ELSE IF inventory[1] = caches[key].value
          THEN LET crafted == caches[key].value * 2 IN
               /\ modifiedCaches' = MapSet(modifiedCaches, key, Some(crafted))
               /\ inventory' = None
               /\ caches' = updateAllCacheColors(
                                MapSet(caches, key,
                                       [value |-> crafted,
                                        stroke |-> caches[key].stroke]),
                                playerPos, None)
               /\ msg' = <<"Placed token and crafted", crafted>>
               /\ hasCrafted' = IF crafted >= WIN_THRESHOLD
                                THEN ~hasCrafted ELSE hasCrafted
          ELSE /\ msg' = <<"Token values do not match; cannot place here.">>
               /\ UNCHANGED <<inventory, modifiedCaches, caches, hasCrafted>>
       /\ UNCHANGED <<seed, playerPos, mapCenter, panPending, cellRecords,
                      orphanMarkers>>

\* a place handler that keeps the carried token after the merge
Place_keepsToken(i, j) ==
    LET key == cellKey(i, j)
        dist == requestDistance(i, j)
    IN /\ key \in DOMAIN caches
       /\ IF dist <= PROXIMITY_CELLS /\ inventory /= None
             /\ inventory = Some(caches[key].value)
          THEN LET crafted == caches[key].value * 2 IN
               /\ modifiedCaches' = MapSet(modifiedCaches, key, Some(crafted))
               /\ caches' = updateAllCacheColors(
                                MapSet(caches, key,
                                       [value |-> crafted,
                                        stroke |-> caches[key].stroke]),
                                playerPos, inventory)
               /\ msg' = <<"Placed token and crafted", crafted>>
               /\ hasCrafted' = (hasCrafted \/ crafted >= WIN_THRESHOLD)
          ELSE /\ msg' = IF dist > PROXIMITY_CELLS
                         THEN <<"Too far to place", dist>>
                         ELSE IF inventory = None
                         THEN <<"You have no token to place.">>
                         ELSE <<"Token values do not match; cannot place here.">>
               /\ UNCHANGED <<modifiedCaches, caches, hasCrafted>>
       /\ UNCHANGED <<seed, playerPos, mapCenter, panPending, cellRecords,
                      orphanMarkers, inventory>>

\* the place button of the popup of the cache marker of cell <<i, j>>
\* (the three copies of the handler in drawCell are the same)
Place(i, j) ==
    LET key == cellKey(i, j)
        dist == requestDistance(i, j)
    IN /\ key \in DOMAIN caches
       /\ IF dist > PROXIMITY_CELLS
          THEN /\ msg' = <<"Too far to place", dist>>
               /\ UNCHANGED <<inventory, modifiedCaches, caches, hasCrafted>>
          ELSE IF inventory = None
          THEN /\ msg' = <<"You have no token to place.">>
               /\ UNCHANGED <<inventory, modifiedCaches, caches, hasCrafted>>
          ELSE IF inventory[1] = caches[key].value
          THEN LET crafted == caches[key].value * 2 IN
               /\ modifiedCaches' = MapSet(modifiedCaches, key, Some(crafted))
               /\ inventory' = None
               /\ caches' = updateAllCacheColors(
                                MapSet(caches, key,
                                       [value |-> crafted,
                                        stroke |-> caches[key].stroke]),
                                playerPos, None)
               /\ msg' = <<"Placed token and crafted", crafted>>
               /\ hasCrafted' = IF ~hasCrafted /\ crafted >= WIN_THRESHOLD
                                THEN triggerWin(hasCrafted) ELSE hasCrafted
          ELSE /\ msg' = <<"Token values do not match; cannot place here.">>
               /\ UNCHANGED <<inventory, modifiedCaches, caches, hasCrafted>>
       /\ UNCHANGED <<seed, playerPos, mapCenter, panPending, cellRecords,
                      orphanMarkers>>

\* the drop button of the popup of the rectangle of cell <<i, j>>
Drop(i, j) ==
    LET key == cellKey(i, j)
        dist == requestDistance(i, j)
    IN /\ key \in DOMAIN cellRecords
       /\ cellRecords[key] = "drop"
       /\ IF dist > PROXIMITY_CELLS
          THEN /\ msg' = <<"Too far to drop", dist>>
               /\ UNCHANGED <<inventory, modifiedCaches, caches, orphanMarkers>>
          ELSE IF inventory = None
          THEN /\ msg' = <<"You have no token to drop.">>
               /\ UNCHANGED <<inventory, modifiedCaches, caches, orphanMarkers>>
          ELSE LET val == inventory[1] IN
               /\ orphanMarkers' = IF key \in DOMAIN caches
                                   THEN orphanMarkers \cup {key}
                                   ELSE orphanMarkers
               /\ modifiedCaches' = MapSet(modifiedCaches, key, Some(val))
               /\ inventory' = None
               /\ caches' = updateAllCacheColors(
                                MapSet(caches, key,
                                       [value |-> val, stroke |-> "dark"]),
                                playerPos, None)
               /\ msg' = <<"Dropped token", val>>
       /\ UNCHANGED <<seed, playerPos, mapCenter, panPending, cellRecords,
                      hasCrafted>>

\* the history variable is not kept
NoHist == UNCHANGED <<drawnNear, expected, inventoryList, craftResult>>

\* a marker put on the map by this event (by drawCell or by a drop) is
\* stamped with whether the player stands within the radius
NewMarkers ==
    (DOMAIN caches' \ DOMAIN caches)
    \cup {k \in DOMAIN caches' : msg'[1] = "Dropped token" /\ Drop(k[1], k[2])}

\* the cell of a successful request, and what the request left there
Touched ==
    IF msg'[1] = "Picked up."
    THEN {<<k, None>> : k \in {x \in Cells : Pickup(x[1], x[2])}}
    ELSE IF msg'[1] = "Placed token and crafted"
    THEN {<<k, Some(msg'[2])>> : k \in {x \in Cells : Place(x[1], x[2])}}
    ELSE IF msg'[1] = "Dropped token"
    THEN {<<k, Some(msg'[2])>> : k \in {x \in Cells : Drop(x[1], x[2])}}
    ELSE {}

Hist ==
    /\ UNCHANGED <<inventoryList, craftResult>>
    /\ expected' = [k \in DOMAIN expected \cup {t[1] : t \in Touched} |->
                      IF \E t \in Touched : t[1] = k
                      THEN (CHOOSE t \in Touched : t[1] = k)[2]
                      ELSE expected[k]]
    /\ drawnNear' = [k \in DOMAIN caches' |->
                       IF k \in NewMarkers \/ k \notin DOMAIN drawnNear
                       THEN cellDistance(latLngToCell(playerPos'), k)
                            <= PROXIMITY_CELLS
                       ELSE drawnNear[k]]

\* one event of the page
Next ==
    \/ KeyW /\ NoHist
    \/ KeyS /\ NoHist
    \/ KeyA /\ NoHist
    \/ KeyD /\ NoHist
    \/ MoveEnd /\ NoHist
    \/ \E c \in DragCenters : DragMap(c) /\ NoHist
    \/ \E k \in Cells : Pickup(k[1], k[2]) /\ NoHist
    \/ \E k \in Cells : Place(k[1], k[2]) /\ NoHist
    \/ \E k \in Cells : Drop(k[1], k[2]) /\ NoHist

Spec == Init /\ [][Next]_vars

\* the page in the world where merges remain possible after the win
SpecRepeat == InitRepeat /\ [][Next]_vars

\* the same events, with the history variable kept
NextHist ==
    \/ KeyW /\ Hist
    \/ KeyS /\ Hist
    \/ KeyA /\ Hist
    \/ KeyD /\ Hist
    \/ MoveEnd /\ Hist
    \/ \E c \in DragCenters : DragMap(c) /\ Hist
    \/ \E k \in Cells : Pickup(k[1], k[2]) /\ Hist
    \/ \E k \in Cells : Place(k[1], k[2]) /\ Hist
    \/ \E k \in Cells : Drop(k[1], k[2]) /\ Hist

SpecHist == Init /\ [][NextHist]_vars

\* what a MoveEnd step does to the pan: the pending pan ends with the map
\* centred on the player, who has not moved.  Among the steps of Next these
\* are the MoveEnd steps (and a drag that drops the map where the pan was
\* going, which leaves the same state), and one is possible exactly while
\* panPending holds.
MoveEndDelivered ==
    /\ panPending
    /\ panPending' = FALSE
    /\ mapCenter' = playerPos
    /\ playerPos' = playerPos

\* the page with the browser delivering the moveend of a pan that stays
\* pending
SpecLive == Init /\ [][Next]_vars /\ WF_panPending(MoveEndDelivered)

(***************************************************************************)
(* The earlier variant of the page whose inventory is a list of tokens     *)
(***************************************************************************)
\* Math.floor(luck(...) * 100) is any of 0..99; the values tried
TokenValues == {0, 1, 2}
\* the values doCraft is called with
CraftValues == 0 .. 4

\* groupInventory(): value -> how many tokens of it the list holds
groupInventory(inv) ==
    [v \in {inv[n] : n \in DOMAIN inv} |->
        Cardinality({n \in DOMAIN inv : inv[n] = v})]

canCraft_one(inv, value) ==
    LET counts == groupInventory(inv)
    IN  (IF value \in DOMAIN counts THEN counts[value] ELSE 0) >= 1

\* canCraft(value): (counts.get(value) ?? 0) >= 2
canCraft(inv, value) ==
    LET counts == groupInventory(inv)
    IN  (IF value \in DOMAIN counts THEN counts[value] ELSE 0) >= 2

\* inventory.splice(i, 1)
splice(inv, i) ==
    [n \in 1 .. (Len(inv) - 1) |-> IF n < i THEN inv[n] ELSE inv[n + 1]]

\* the loop of doCraft: i runs from the end of the list down to its start
\* while removed < 2, and a token equal to value is spliced out
RECURSIVE removeFromEnd(_, _, _, _)
removeFromEnd(inv, value, i, removed) ==
    IF i < 1 \/ removed >= 2 THEN inv
    ELSE IF inv[i] = value
         THEN removeFromEnd(splice(inv, i), value, i - 1, removed + 1)
         ELSE removeFromEnd(inv, value, i - 1, removed)

doCraft_keepsOne(inv, value) ==
    IF ~canCraft(inv, value) THEN [inventory |-> inv, ok |-> FALSE]
    ELSE [inventory |-> Append(removeFromEnd(inv, value, Len(inv), 1),
                               value * 2),
          ok |-> TRUE]

\* doCraft(value): the list it leaves and what it returns
doCraft(inv, value) ==
    IF ~canCraft(inv, value) THEN [inventory |-> inv, ok |-> FALSE]
    ELSE [inventory |-> Append(removeFromEnd(inv, value, Len(inv), 0),
                               value * 2),
          ok |-> TRUE]

\* everything the map part of the page keeps
mapVars == <<seed, playerPos, mapCenter, panPending, inventory, caches,
             modifiedCaches, cellRecords, orphanMarkers, hasCrafted, msg,
             drawnNear, expected>>

\* the pick-up button of a cache of value v next to the player:
\* inventory.push(pointValue)
PickupToken(v) ==
    /\ Len(inventoryList) < MaxInventory
    /\ inventoryList' = Append(inventoryList, v)
    /\ craftResult' = <<>>
    /\ UNCHANGED mapVars

\* a call doCraft(value)
CallDoCraft(value) ==
    LET r == doCraft(inventoryList, value)
    IN  /\ inventoryList' = r.inventory
        /\ craftResult' = <<value, r.ok>>
        /\ UNCHANGED mapVars

\* the craft button of the row of value; the panel is drawn again after every
\* change of the list, so the row is there iff the list holds the value and
\* the button is enabled iff it holds two
CraftClick(value) ==
    /\ value \in DOMAIN groupInventory(inventoryList)
    /\ groupInventory(inventoryList)[value] >= 2
    /\ IF value <= 0 \/ ~canCraft(inventoryList, value)
       THEN /\ craftResult' = <<>>
            /\ UNCHANGED inventoryList
       ELSE LET r == doCraft(inventoryList, value)
            IN  /\ inventoryList' = r.inventory
                /\ craftResult' = <<value, r.ok>>
    /\ UNCHANGED mapVars

InitCraft == StartUp({1})

NextCraft ==
    \/ \E v \in TokenValues : PickupToken(v)
    \/ \E value \in CraftValues : CallDoCraft(value)
    \/ \E value \in CraftValues : CraftClick(value)

SpecCraft == InitCraft /\ [][NextCraft]_vars

(***************************************************************************)
(* Vocabulary of the properties                                            *)
(***************************************************************************)
\* what the generator gives a cell: <<v>> for a cache of value v, <<>> for none
Baseline(k) ==
    IF luckCell(seed, k[1], k[2]) < CACHE_SPAWN_PROBABILITY
    THEN Some(cacheValue(luckValue(seed, k[1], k[2])))
    ELSE None

\* the content of a cell: its overlay entry if it has one, else its baseline
Resolved(k) ==
    IF k \in DOMAIN modifiedCaches THEN modifiedCaches[k] ELSE Baseline(k)

\* the content of a cell after the step
ResolvedNext(k) ==
    IF k \in DOMAIN modifiedCaches' THEN modifiedCaches'[k] ELSE Baseline(k)

\* what the map shows at a cell
Rendered(k) == IF k \in DOMAIN caches THEN Some(caches[k].value) ELSE None
RenderedNext(k) == IF k \in DOMAIN caches' THEN Some(caches'[k].value) ELSE None

Materialized(k) == k \in DOMAIN cellRecords

\* the step is a viewport update (with the player move that may precede it)
ViewportStep ==
    KeyW \/ KeyS \/ KeyA \/ KeyD \/ MoveEnd \/ \E c \in DragCenters : DragMap(c)

\* the overlay entries of the cells other than k are the same after the step
OthersKept(k) ==
    /\ DOMAIN modifiedCaches' \ {k} = DOMAIN modifiedCaches \ {k}
    /\ \A x \in DOMAIN modifiedCaches \ {k} : modifiedCaches'[x] = modifiedCaches[x]

(***************************************************************************)
(* C1 (SpecHist).  A cell a successful pickup, merge or drop has touched   *)
(* shows, whenever it is materialized, the content that request left       *)
(* there: eviction and re-materialization never bring the baseline back.   *)
(***************************************************************************)
C1_OverlayPersists ==
    \A k \in DOMAIN expected : Materialized(k) => Rendered(k) = expected[k]

\* a cell that had a baseline cache, was picked up, evicted and materialized
\* again (its rectangle carries the drop popup), shown without a cache
C1_Witness ==
    \E k \in DOMAIN expected :
        /\ expected[k] = None
        /\ Baseline(k) /= None
        /\ Materialized(k) /\ cellRecords[k] = "drop"
        /\ Rendered(k) = None

(***************************************************************************)
(* C2 (Spec).  A cell that becomes materialized shows its overlay entry if *)
(* it has one (null: no cache, v: a cache of value v), whatever the        *)
(* generator says, and the generator's cache or absence only otherwise.    *)
(***************************************************************************)
C2_ResolverRule ==
    [][\A k \in DOMAIN cellRecords' \ DOMAIN cellRecords :
          RenderedNext(k) = IF k \in DOMAIN modifiedCaches
                            THEN modifiedCaches[k]
                            ELSE Baseline(k)]_vars

\* a cell materialized from an overlay token that is not its baseline value
\* (the token was dropped there and the cell drawn again since), next to a
\* materialized cell without overlay entry
C2_Witness ==
    /\ \E k \in DOMAIN modifiedCaches :
          /\ Materialized(k) /\ cellRecords[k] = "none"
          /\ modifiedCaches[k] /= None /\ Baseline(k) /= None
          /\ modifiedCaches[k][1] < Baseline(k)[1]
          /\ Rendered(k) = modifiedCaches[k]
    /\ \E k \in DOMAIN cellRecords : k \notin DOMAIN modifiedCaches

(***************************************************************************)
(* C3 (Spec).  A viewport update leaves the overlay, the inventory and the *)
(* win flag as they were.                                                  *)
(***************************************************************************)
C3_ViewportFrame ==
    [][ViewportStep => UNCHANGED <<modifiedCaches, inventory, hasCrafted>>]_vars

\* after a viewport update: a cell with an overlay entry is evicted while the
\* player carries a token
C3_Witness ==
    /\ msg = <<"none">>
    /\ inventory /= None
    /\ \E k \in DOMAIN modifiedCaches : ~Materialized(k)

(***************************************************************************)
(* C4 (Spec).  A pickup on a cell showing a cache of value v, within the   *)
(* proximity radius and with an empty inventory, sets the inventory to v,  *)
(* records the cell as explicitly empty, removes its cache marker, and     *)
(* leaves the other overlay entries and the win flag alone.                *)
(***************************************************************************)
C4_PickupSuccess ==
    [][\A k \in Cells :
          (/\ Pickup(k[1], k[2])
           /\ cellDistance(latLngToCell(playerPos), k) <= PROXIMITY_CELLS
           /\ inventory = None)
          => /\ inventory' = Some(caches[k].value)
             /\ k \in DOMAIN modifiedCaches' /\ modifiedCaches'[k] = None
             /\ k \notin DOMAIN caches'
             /\ OthersKept(k)
             /\ hasCrafted' = hasCrafted]_vars

\* just after a pickup of a baseline cache, another cell's overlay entry intact
C4_Witness ==
    /\ msg = <<"Picked up.">>
    /\ inventory /= None
    /\ \E k \in DOMAIN modifiedCaches :
          /\ modifiedCaches[k] = None /\ k \notin DOMAIN caches
          /\ Baseline(k) = inventory
    /\ \E k \in DOMAIN modifiedCaches : modifiedCaches[k] /= None

(***************************************************************************)
(* C5 (Spec).  A place on a cell showing a cache of value v, within the    *)
(* proximity radius and while carrying exactly v, makes the cache 2*v,     *)
(* writes 2*v as the cell's overlay entry and empties the inventory; a 1   *)
(* placed on a 1 gives 2 and does not win.                                 *)
(***************************************************************************)
C5_PlaceSuccess ==
    [][\A k \in Cells :
          (/\ Place(k[1], k[2])
           /\ cellDistance(latLngToCell(playerPos), k) <= PROXIMITY_CELLS
           /\ inventory = Some(caches[k].value))
          => /\ caches'[k].value = 2 * caches[k].value
             /\ modifiedCaches'[k] = Some(2 * caches[k].value)
             /\ inventory' = None
             /\ OthersKept(k)
             /\ (caches[k].value = 1 => hasCrafted' = hasCrafted)]_vars

\* just after a 1 was placed on a 1
C5_Witness ==
    /\ msg = <<"Placed token and crafted", 2>>
    /\ inventory = None
    /\ ~hasCrafted
    /\ \E k \in DOMAIN caches :
          /\ caches[k].value = 2 /\ Baseline(k) = Some(1)
          /\ k \in DOMAIN modifiedCaches /\ modifiedCaches[k] = Some(2)

\* the Chebyshev distance from the player's cell to cell k, the player's
\* cell being the one nearest to the position (halves go up, as Math.round)
Chebyshev(k) ==
    LET pi == (2 * playerPos[1] + TILE_DEGREES) \div (2 * TILE_DEGREES)
        pj == (2 * playerPos[2] + TILE_DEGREES) \div (2 * TILE_DEGREES)
        di == pi - k[1]
        dj == pj - k[2]
        ai == IF di < 0 THEN -di ELSE di
        aj == IF dj < 0 THEN -dj ELSE dj
    IN IF ai >= aj THEN ai ELSE aj

\* the step changes nothing but the reported message
OnlyReports ==
    UNCHANGED <<seed, playerPos, mapCenter, panPending, inventory, caches,
                modifiedCaches, cellRecords, orphanMarkers, hasCrafted>>

(***************************************************************************)
(* C6, as claimed.  No step turns a cell without a cache (explicitly empty *)
(* or baseline-empty) into a cell holding a cache.                         *)
(***************************************************************************)
C6_NeverFromNothing ==
    [][\A k \in Cells : Resolved(k) = None => ResolvedNext(k) = None]_vars

(***************************************************************************)
(* C6, amended (Spec).  A cell without a cache comes to hold one only by a *)
(* drop: the cell is explicitly empty in the overlay (never baseline-      *)
(* empty), its rectangle carries the drop popup, the player is within the  *)
(* radius and carries a token, and the cell receives exactly that token    *)
(* while the inventory empties.  A place never does it.                    *)
(***************************************************************************)
C6_OnlyDropFills ==
    [][\A k \in Cells :
          (Resolved(k) = None /\ ResolvedNext(k) /= None)
          => /\ Drop(k[1], k[2])
             /\ ~Place(k[1], k[2])
             /\ k \in DOMAIN modifiedCaches
             /\ Materialized(k) /\ cellRecords[k] = "drop"
             /\ Chebyshev(k) <= PROXIMITY_CELLS
             /\ inventory /= None
             /\ ResolvedNext(k) = inventory
             /\ inventory' = None]_vars

\* just after a drop onto an explicitly empty cell
C6_Witness ==
    /\ msg[1] = "Dropped token"
    /\ inventory = None
    /\ \E k \in DOMAIN modifiedCaches :
          /\ modifiedCaches[k] = Some(msg[2])
          /\ Materialized(k) /\ cellRecords[k] = "drop"
          /\ Rendered(k) = Some(msg[2])
          /\ k \notin orphanMarkers

(***************************************************************************)
(* C7, as claimed.  The content of a cell holding a cache of value v       *)
(* changes only by a pickup (the cell becomes empty and the player carries *)
(* v) or by a merge with a carried v (the cell becomes 2*v and the         *)
(* inventory empties); nothing overwrites it with the carried token.       *)
(***************************************************************************)
C7_OnlyPickupOrMerge ==
    [][\A k \in Cells :
          (Resolved(k) /= None /\ ResolvedNext(k) /= Resolved(k))
          => \/ /\ ResolvedNext(k) = None
                /\ inventory = None /\ inventory' = Resolved(k)
             \/ /\ ResolvedNext(k) = Some(2 * Resolved(k)[1])
                /\ inventory = Resolved(k) /\ inventory' = None]_vars

(***************************************************************************)
(* C8, as claimed.  A pickup made while the inventory is non-empty is      *)
(* reported as already-carrying and changes nothing.                       *)
(***************************************************************************)
C8_AlwaysAlreadyCarrying ==
    [][\A k \in Cells :
          (Pickup(k[1], k[2]) /\ inventory /= None)
          => /\ msg' = <<"You're already carrying a token.">>
             /\ OnlyReports]_vars

(***************************************************************************)
(* C8, amended (Spec).  The inventory holds at most one token; a pickup    *)
(* made while it is non-empty changes nothing, and is reported as          *)
(* already-carrying when the cell is within the proximity radius and as    *)
(* too-far (the distance is tested first) when it is not.                  *)
(***************************************************************************)
C8_SingleSlot ==
    [][/\ Len(inventory') <= 1
       /\ \A k \in Cells :
            (Pickup(k[1], k[2]) /\ inventory /= None)
            => /\ OnlyReports
               /\ msg' = IF Chebyshev(k) <= PROXIMITY_CELLS
                         THEN <<"You're already carrying a token.">>
                         ELSE <<"Too far to pick up", Chebyshev(k)>>]_vars

\* just after a pickup was refused for carrying, the cache still in reach
C8_Witness ==
    /\ msg = <<"You're already carrying a token.">>
    /\ inventory /= None
    /\ \E k \in DOMAIN caches : Chebyshev(k) <= PROXIMITY_CELLS

(***************************************************************************)
(* C9 (Spec).  With d the Chebyshev distance from the player's cell: a     *)
(* pickup or place whose other preconditions hold succeeds at              *)
(* d = PROXIMITY_CELLS, and at every d > PROXIMITY_CELLS a pickup or place *)
(* reports too-far with d and changes nothing.                             *)
(***************************************************************************)
C9_ProximityBoundary ==
    [][\A k \in Cells :
          /\ (/\ Pickup(k[1], k[2])
              /\ Chebyshev(k) = PROXIMITY_CELLS
              /\ inventory = None)
             => (msg' = <<"Picked up.">> /\ inventory' = Some(caches[k].value))
          /\ (/\ Place(k[1], k[2])
              /\ Chebyshev(k) = PROXIMITY_CELLS
              /\ inventory = Some(caches[k].value))
             => (msg' = <<"Placed token and crafted", 2 * caches[k].value>>
                 /\ inventory' = None)
          /\ (Pickup(k[1], k[2]) /\ Chebyshev(k) > PROXIMITY_CELLS)
             => (msg' = <<"Too far to pick up", Chebyshev(k)>> /\ OnlyReports)
          /\ (Place(k[1], k[2]) /\ Chebyshev(k) > PROXIMITY_CELLS)
             => (msg' = <<"Too far to place", Chebyshev(k)>> /\ OnlyReports)]_vars

\* just after a place that met every other precondition was refused one cell
\* beyond the radius
C9_Witness ==
    /\ msg = <<"Too far to place", PROXIMITY_CELLS + 1>>
    /\ inventory /= None
    /\ \E k \in DOMAIN caches :
          /\ Chebyshev(k) = PROXIMITY_CELLS + 1
          /\ caches[k].value = inventory[1]

(***************************************************************************)
(* C10 (SpecHist).  A pickup or place is authorized by the player's cell   *)
(* at the click: a marker drawn while the player was within the radius     *)
(* refuses with too-far once the player is out of range, and a marker      *)
(* drawn while the player was out of range accepts once the player is      *)
(* within range.                                                           *)
(***************************************************************************)
C10_CurrentCellDecides ==
    [][\A k \in DOMAIN caches :
          /\ (/\ Pickup(k[1], k[2])
              /\ drawnNear[k]
              /\ Chebyshev(k) > PROXIMITY_CELLS)
             => msg' = <<"Too far to pick up", Chebyshev(k)>>
          /\ (/\ Place(k[1], k[2])
              /\ drawnNear[k]
              /\ Chebyshev(k) > PROXIMITY_CELLS)
             => msg' = <<"Too far to place", Chebyshev(k)>>
          /\ (/\ Pickup(k[1], k[2])
              /\ ~drawnNear[k]
              /\ Chebyshev(k) <= PROXIMITY_CELLS
              /\ inventory = None)
             => msg' = <<"Picked up.">>
          /\ (/\ Place(k[1], k[2])
              /\ ~drawnNear[k]
              /\ Chebyshev(k) <= PROXIMITY_CELLS
              /\ inventory = Some(caches[k].value))
             => msg'[1] = "Placed token and crafted"]_vars

\* just after a merge into a cache whose marker was drawn while the player
\* was out of range, with another marker drawn in range now out of range
C10_Witness ==
    /\ msg[1] = "Placed token and crafted"
    /\ \E k \in DOMAIN caches :
          /\ caches[k].value = msg[2]
          /\ k \in DOMAIN modifiedCaches /\ modifiedCaches[k] = Some(msg[2])
          /\ ~drawnNear[k]
          /\ Chebyshev(k) <= PROXIMITY_CELLS
    /\ \E k \in DOMAIN caches :
          drawnNear[k] /\ Chebyshev(k) > PROXIMITY_CELLS

(***************************************************************************)
(* C11 (Spec).  A place within the radius while carrying a value other     *)
(* than the one the cell holds is reported as a mismatch and changes       *)
(* nothing: inventory, cell value, overlay and win flag stay as they were. *)
(***************************************************************************)
C11_MismatchRejected ==
    [][\A k \in Cells :
          (/\ Place(k[1], k[2])
           /\ Chebyshev(k) <= PROXIMITY_CELLS
           /\ inventory /= None
           /\ inventory /= Some(caches[k].value))
          => /\ msg' = <<"Token values do not match; cannot place here.">>
             /\ OnlyReports]_vars

\* just after a place of a carried 2 onto a cache of 3 in reach was refused
C11_Witness ==
    /\ msg = <<"Token values do not match; cannot place here.">>
    /\ inventory = Some(2)
    /\ \E k \in DOMAIN caches :
          caches[k].value = 3 /\ Chebyshev(k) <= PROXIMITY_CELLS

(***************************************************************************)
(* C12, as claimed.  A place made while the inventory is empty is reported *)
(* as nothing-carried and changes nothing.                                 *)
(***************************************************************************)
C12_AlwaysNothingCarried ==
    [][\A k \in Cells :
          (Place(k[1], k[2]) /\ inventory = None)
          => /\ msg' = <<"You have no token to place.">>
             /\ OnlyReports]_vars

(***************************************************************************)
(* C12, amended (Spec).  A place made while the inventory is empty changes *)
(* nothing; it is reported as nothing-carried when the cell is within the  *)
(* proximity radius and as too-far (the distance is tested first) when it  *)
(* is not.                                                                 *)
(***************************************************************************)
C12_NothingCarried ==
    [][\A k \in Cells :
          (Place(k[1], k[2]) /\ inventory = None)
          => /\ OnlyReports
             /\ msg' = IF Chebyshev(k) <= PROXIMITY_CELLS
                       THEN <<"You have no token to place.">>
                       ELSE <<"Too far to place", Chebyshev(k)>>]_vars

\* just after a place with nothing carried was refused, the cache in reach
C12_Witness ==
    /\ msg = <<"You have no token to place.">>
    /\ inventory = None
    /\ \E k \in DOMAIN caches : Chebyshev(k) <= PROXIMITY_CELLS

\* the value a successful merge of this step crafted, 0 when the step is none
Merged ==
    IF msg'[1] = "Placed token and crafted" /\ \E k \in Cells : Place(k[1], k[2])
    THEN msg'[2]
    ELSE 0

(***************************************************************************)
(* C13 (Spec).  The win flag starts false and turns true only in a step    *)
(* that is a successful merge crafting a value >= WIN_THRESHOLD; while the *)
(* flag is false every such merge sets it and every merge crafting less    *)
(* leaves it false: 1+1 -> 2 and 2+2 -> 4 do not win, 4+4 -> 8 wins.       *)
(***************************************************************************)
C13_WinDetection ==
    /\ ~hasCrafted
    /\ [][/\ (~hasCrafted /\ hasCrafted') => Merged >= WIN_THRESHOLD
          /\ (~hasCrafted /\ Merged >= WIN_THRESHOLD) => hasCrafted'
          /\ (~hasCrafted /\ Merged \in {2, 4}) => ~hasCrafted'
          /\ (~hasCrafted /\ Merged = 8) => hasCrafted'
          /\ Merged > 0 =>
               \E k \in DOMAIN caches :
                  /\ Place(k[1], k[2])
                  /\ inventory = Some(caches[k].value)
                  /\ Merged = 2 * caches[k].value
                  /\ caches'[k].value = Merged]_vars

\* just after 4 + 4 -> 8 set the win flag
C13_Witness ==
    /\ hasCrafted
    /\ msg = <<"Placed token and crafted", 8>>
    /\ inventory = None
    /\ \E k \in DOMAIN caches : caches[k].value = 8

(***************************************************************************)
(* C14 (SpecRepeat).  Once the win flag is true it is true after every     *)
(* step, whatever the step is; so the flag turns from false to true at     *)
(* most once, and a merge that reaches the threshold again finds it true   *)
(* and leaves it true.                                                     *)
(***************************************************************************)
C14_WinOneShot ==
    [][/\ hasCrafted => hasCrafted'
       /\ (hasCrafted /\ Merged >= WIN_THRESHOLD) => UNCHANGED hasCrafted
       /\ (~hasCrafted /\ hasCrafted') => Merged >= WIN_THRESHOLD]_vars

\* just after the third merge reaching the threshold (4+4, 4+4, then 8+8)
C14_Witness ==
    /\ hasCrafted
    /\ msg = <<"Placed token and crafted", 16>>
    /\ \E k \in DOMAIN caches : caches[k].value = 16

\* cell k lies inside the quantized inclusive bounds of the map window
\* centred at c: floor((c - half) / tile) <= k <= floor((c + half) / tile)
InView(k, c) ==
    /\ c[1] - ViewHalfLat < (k[1] + 1) * TILE_DEGREES
    /\ k[1] * TILE_DEGREES <= c[1] + ViewHalfLat
    /\ c[2] - ViewHalfLng < (k[2] + 1) * TILE_DEGREES
    /\ k[2] * TILE_DEGREES <= c[2] + ViewHalfLng

\* the cells of the window centred at c
Window(c) == {k \in Cells : InView(k, c)}

(***************************************************************************)
(* C15 (Spec).  After every viewport update the materialized cells are     *)
(* exactly the cells inside the quantized inclusive bounds of the map      *)
(* window the update read: none outside remains, none inside is missing.   *)
(***************************************************************************)
C15_MaterializedIsWindow ==
    [][ViewportStep => DOMAIN cellRecords' = Window(mapCenter')]_vars

\* just after a viewport update onto a window other than the first one
C15_Witness ==
    /\ msg = <<"none">>
    /\ mapCenter /= <<0, 0>>
    /\ DOMAIN cellRecords = Window(mapCenter)
    /\ DOMAIN cellRecords /= Window(<<0, 0>>)
    /\ DOMAIN cellRecords \cap Window(<<0, 0>>) /= {}

(***************************************************************************)
(* C16, as claimed.  No cell ever shows more than one cache marker: no     *)
(* marker is left on the map beside the one the cell's entry tracks.       *)
(* (Rectangles are one per cell by construction: a rectangle is drawn only *)
(* for a cell without a record.)                                           *)
(***************************************************************************)
C16_OneMarkerPerCell ==
    /\ orphanMarkers = {}
    /\ DOMAIN caches \subseteq DOMAIN cellRecords

(***************************************************************************)
(* C17 (Spec).  With P the window before a viewport update and N the       *)
(* window after it: records are created exactly for N \ P and destroyed    *)
(* exactly for P \ N, and a cell of P \cap N keeps its record with the     *)
(* popup it had and keeps its cache marker with its value; no marker is    *)
(* left behind by a redraw.                                                *)
(***************************************************************************)
C17_ViewportDelta ==
    [][ViewportStep =>
        LET P == Window(mapCenter)
            N == Window(mapCenter')
        IN /\ DOMAIN cellRecords' \ DOMAIN cellRecords = N \ P
           /\ DOMAIN cellRecords \ DOMAIN cellRecords' = P \ N
           /\ \A k \in P \cap N :
                /\ cellRecords'[k] = cellRecords[k]
                /\ (k \in DOMAIN caches') = (k \in DOMAIN caches)
                /\ k \in DOMAIN caches => caches'[k].value = caches[k].value
           /\ orphanMarkers' = orphanMarkers]_vars

\* just after a viewport update that kept a record older than the cell's
\* present content, on a window other than the first one
C17_Witness ==
    /\ msg = <<"none">>
    /\ DOMAIN cellRecords /= Window(<<0, 0>>)
    /\ \E k \in DOMAIN cellRecords \cap Window(<<0, 0>>) :
          cellRecords[k] /= drawCellPopup(seed, modifiedCaches, k[1], k[2])

\* a cell no window ever shows
FarCell == <<-9, -9>>

(***************************************************************************)
(* C18 (Spec).  In every reachable state and for every cell: removeCell    *)
(* is defined, removeCell on a cell without a record (never rendered or    *)
(* already removed) returns the state unchanged, and removeCell twice      *)
(* gives the state removeCell once gives.                                  *)
(***************************************************************************)
C18_RemoveIdempotent ==
    \A k \in Cells \cup {FarCell} :
       LET once == removeCell(Store, k[1], k[2])
           twice == removeCell(once, k[1], k[2])
       IN /\ twice = once
          /\ k \notin DOMAIN cellRecords => once = Store
          /\ k \notin DOMAIN once.recs /\ k \notin DOMAIN once.caches
          /\ once.mod = modifiedCaches

\* a state with a cell that was rendered, touched and removed, and with a
\* materialized cache cell whose removal changes the state once and not twice
C18_Witness ==
    /\ \E k \in DOMAIN modifiedCaches :
          /\ k \notin DOMAIN cellRecords
          /\ removeCell(Store, k[1], k[2]) = Store
    /\ \E k \in DOMAIN caches :
          /\ k \in DOMAIN cellRecords
          /\ removeCell(Store, k[1], k[2]) /= Store
          /\ removeCell(removeCell(Store, k[1], k[2]), k[1], k[2])
                = removeCell(Store, k[1], k[2])

\* the values the generator can give an unmodified cache
GeneratorValues == {cacheValue(r) : r \in 0..999}

\* n is a power of two: its only odd divisor is 1
IsPowerOfTwo(n) ==
    n >= 1 /\ \A d \in 1..n : (n % d = 0 /\ d % 2 = 1) => d = 1

\* v is a generator value doubled some number of times
Doubled(v) ==
    /\ v \in Nat /\ v > 0
    /\ \E b \in GeneratorValues : v % b = 0 /\ IsPowerOfTwo(v \div b)

(***************************************************************************)
(* C19 (Spec).  The generator's values are 1..5, and every overlay entry   *)
(* that holds a token holds a positive integer b * 2^k with b one of them  *)
(* and k >= 0.                                                             *)
(***************************************************************************)
C19_ValuesOnlyDouble ==
    /\ GeneratorValues = 1..5
    /\ \A k \in DOMAIN modifiedCaches :
          modifiedCaches[k] /= None => Doubled(modifiedCaches[k][1])

\* an overlay entry doubled twice (2 -> 4 -> 8) beside an emptied one
C19_Witness ==
    /\ \E k \in DOMAIN modifiedCaches : modifiedCaches[k] = Some(8)
    /\ \E k \in DOMAIN modifiedCaches : modifiedCaches[k] = None

(***************************************************************************)
(* C20 (Spec).  No step removes a key from the overlay: a key present in   *)
(* modifiedCaches is present after every step (its value may change        *)
(* between a token value and explicitly empty), so the cell's content      *)
(* stays the overlay's and never falls back to the baseline.               *)
(***************************************************************************)
C20_OverlayKeysKept ==
    [][\A k \in DOMAIN modifiedCaches :
          /\ k \in DOMAIN modifiedCaches'
          /\ ResolvedNext(k) = modifiedCaches'[k]]_vars

\* a touched cell, now evicted and explicitly empty, whose baseline is a
\* cache, beside a touched cell whose entry went from empty back to a token
C20_Witness ==
    /\ \E k \in DOMAIN modifiedCaches :
          /\ ~Materialized(k)
          /\ modifiedCaches[k] = None
          /\ Baseline(k) /= None
    /\ \E k \in DOMAIN modifiedCaches :
          /\ modifiedCaches[k] /= None
          /\ Materialized(k)
          /\ cellRecords[k] = "drop"

\* cell k is the target of a successful pickup, place or drop of this step
Succeeds(k) ==
    \/ Pickup(k[1], k[2]) /\ msg' = <<"Picked up.">>
    \/ Place(k[1], k[2]) /\ msg'[1] = "Placed token and crafted"
    \/ Drop(k[1], k[2]) /\ msg'[1] = "Dropped token"

(***************************************************************************)
(* C21 (Spec).  The overlay starts empty and gains a key only in a step    *)
(* that is a successful pickup, place or drop on that cell; player moves,  *)
(* viewport updates and rejected requests leave its keys as they are; and  *)
(* cellRecords and caches hold no cell outside the map window.             *)
(***************************************************************************)
C21_NoStorageUntouched ==
    /\ DOMAIN modifiedCaches = {}
    /\ [](/\ DOMAIN cellRecords \subseteq Window(mapCenter)
          /\ DOMAIN caches \subseteq Window(mapCenter))
    /\ [][/\ \A k \in DOMAIN modifiedCaches' \ DOMAIN modifiedCaches :
                Succeeds(k)
          /\ ViewportStep => UNCHANGED modifiedCaches
          /\ (~ \E k \in Cells : Succeeds(k)) => UNCHANGED modifiedCaches]_vars

\* just after a rejected request, the player and the map having moved, with
\* one overlay entry only, although cells with baseline caches were drawn
C21_Witness ==
    /\ msg[1] = "Too far to place"
    /\ playerPos /= <<0, 0>>
    /\ mapCenter /= <<0, 0>>
    /\ Cardinality(DOMAIN modifiedCaches) = 1
    /\ \E k \in DOMAIN caches : k \notin DOMAIN modifiedCaches

(***************************************************************************)
(* C22 (SpecHist).  A cell without an overlay entry, each time it is       *)
(* materialized, shows what the generator gives for (i, j): the same       *)
(* presence and the same value whatever the player position, the           *)
(* inventory and the other cells' overlay entries; the value is in 1..5.   *)
(***************************************************************************)
C22_BaselineDeterministic ==
    [][\A k \in DOMAIN cellRecords' \ DOMAIN cellRecords :
          k \notin DOMAIN modifiedCaches
          => /\ RenderedNext(k) = Baseline(k)
             /\ Baseline(k) = drawCellCache(seed, EmptyMap, k[1], k[2])
             /\ RenderedNext(k) /= None => RenderedNext(k)[1] \in 1..5]_vars

\* a baseline cache next to the start cell, with no overlay entry, drawn
\* again while the player stood out of its range carrying a token, with
\* another cell's overlay entry present
C22_Witness ==
    /\ inventory /= None
    /\ modifiedCaches /= EmptyMap
    /\ \E k \in DOMAIN caches :
          /\ k \notin DOMAIN modifiedCaches
          /\ cellDistance(<<0, 0>>, k) <= PROXIMITY_CELLS
          /\ ~drawnNear[k]
          /\ Some(caches[k].value) = Baseline(k)

(***************************************************************************)
(* C23 (Spec).  In every state every tracked cache marker is drawn         *)
(* pickable (green) exactly when the cell is within PROXIMITY_CELLS of the *)
(* player's cell, Chebyshev, and the inventory is empty; otherwise grey.   *)
(***************************************************************************)
C23_PickableCurrent ==
    \A k \in DOMAIN caches :
       /\ caches[k].stroke \in {"green", "grey"}
       /\ (caches[k].stroke = "green")
             = (Chebyshev(k) <= PROXIMITY_CELLS /\ inventory = None)

\* after a move, carrying: a marker in reach drawn grey; the inventory alone
\* blocks it
C23_Witness ==
    /\ playerPos /= <<0, 0>>
    /\ inventory /= None
    /\ \E k \in DOMAIN caches :
          Chebyshev(k) <= PROXIMITY_CELLS /\ caches[k].stroke = "grey"

(***************************************************************************)
(* The list inventory and its crafting                                     *)
(***************************************************************************)
\* how many tokens of value v a list holds
Count(inv, v) == Cardinality({n \in DOMAIN inv : inv[n] = v})

\* the sum of a list
RECURSIVE Sum(_)
Sum(inv) == IF inv = <<>> THEN 0 ELSE Head(inv) + Sum(Tail(inv))

\* the list without its p-th and q-th tokens (p < q), the rest in order
Without(inv, p, q) ==
    [n \in 1 .. (Len(inv) - 2) |->
        IF n < p THEN inv[n] ELSE IF n + 1 < q THEN inv[n + 1] ELSE inv[n + 2]]

\* the step is a call doCraft(value)
Crafting(value) == craftResult' /= <<>> /\ craftResult'[1] = value

\* C24: doCraft(value) on a list with at least two tokens of value returns
\* true, takes exactly two tokens of value out of the list and appends one
\* token of value 2 * value: the list is one shorter, its sum is the same, and
\* the tokens of every other value stay as they were, in their order
C24_CraftSuccess ==
    [][\A value \in CraftValues :
        (Crafting(value) /\ Count(inventoryList, value) >= 2) =>
            /\ craftResult'[2] = TRUE
            /\ Len(inventoryList') = Len(inventoryList) - 1
            /\ Sum(inventoryList') = Sum(inventoryList)
            /\ \E p, q \in DOMAIN inventoryList :
                /\ p < q
                /\ inventoryList[p] = value
                /\ inventoryList[q] = value
                /\ inventoryList' =
                       Append(Without(inventoryList, p, q), 2 * value)
            /\ \A w \in 0 .. (4 * MaxInventory) :
                   w \notin {value, 2 * value} =>
                       Count(inventoryList', w) = Count(inventoryList, w)
      ]_vars

\* a craft of two tokens of a value has just succeeded on a list that also
\* holds a third token of it and a token of another value
C24_Witness ==
    /\ craftResult /= <<>>
    /\ craftResult[2] = TRUE
    /\ craftResult[1] > 0
    /\ Count(inventoryList, craftResult[1]) = 1
    /\ Count(inventoryList, 2 * craftResult[1]) = 1
    /\ Len(inventoryList) = 3

\* C25: doCraft(value) on a list with fewer than two tokens of value returns
\* false and leaves the list as it was; a call that returns true or changes
\* the list had two tokens of the same value to take
C25_CraftRejected ==
    [][\A value \in CraftValues :
        Crafting(value) =>
            /\ Count(inventoryList, value) < 2 =>
                   /\ craftResult'[2] = FALSE
                   /\ inventoryList' = inventoryList
            /\ (craftResult'[2] = TRUE \/ inventoryList' /= inventoryList) =>
                   \E p, q \in DOMAIN inventoryList :
                       /\ p /= q
                       /\ inventoryList[p] = value
                       /\ inventoryList[q] = value
      ]_vars

\* doCraft has just refused a value the list holds one token of, next to a
\* token of another value
C25_Witness ==
    /\ craftResult /= <<>>
    /\ craftResult[2] = FALSE
    /\ Count(inventoryList, craftResult[1]) = 1
    /\ Len(inventoryList) = 2

(***************************************************************************)
(* Movement                                                                *)
(***************************************************************************)
\* the player's cell after the step is its cell before plus <<di, dj>>
Stepped(di, dj) ==
    latLngToCell(playerPos') =
        <<latLngToCell(playerPos)[1] + di, latLngToCell(playerPos)[2] + dj>>

\* C26: a key moves the player's cell by one step on one axis, W to i + 1,
\* S to i - 1, A to j - 1 and D to j + 1; nothing else moves the player, and a
\* move leaves the inventory, the overlay and the win flag as they were
C26_MoveByOneCell ==
    [][ /\ KeyW => Stepped(1, 0)
        /\ KeyS => Stepped(-1, 0)
        /\ KeyA => Stepped(0, -1)
        /\ KeyD => Stepped(0, 1)
        /\ playerPos' /= playerPos =>
            /\ Stepped(1, 0) \/ Stepped(-1, 0) \/ Stepped(0, -1)
                   \/ Stepped(0, 1)
            /\ UNCHANGED <<inventory, modifiedCaches, hasCrafted>>
      ]_vars

\* the player has walked off the start cell carrying a token, with a cell
\* recorded in the overlay
C26_Witness ==
    /\ latLngToCell(playerPos) /= <<0, 0>>
    /\ inventory /= None
    /\ DOMAIN modifiedCaches /= {}
    /\ panPending

(***************************************************************************)
(* The map follows the player                                              *)
(***************************************************************************)
\* a key step pans the map and updates the cells; a moveend updates them
\* again, for the window the map then shows
MoveUpdates ==
    /\ playerPos' /= playerPos =>
           /\ panPending'
           /\ DOMAIN cellRecords' = Window(mapCenter')
    /\ (panPending /\ ~panPending') =>
           DOMAIN cellRecords' = Window(mapCenter')

\* the map has come to rest on the player and the materialized cells are the
\* cells of the window around the player
Settled ==
    /\ ~panPending
    /\ mapCenter = playerPos
    /\ DOMAIN cellRecords = Window(playerPos)

\* the map has come to rest where the user dragged it, away from the player
DraggedAway == ~panPending /\ mapCenter /= playerPos

\* nothing but a move of the player or of the map ends the rest
StaysSettled ==
    (Settled /\ playerPos' = playerPos /\ mapCenter' = mapCenter) => Settled'

\* C27 as stated: every move pans the map and updates the cells, every
\* moveend updates them again, and after a move the map comes to rest on the
\* player with the cells of the window around the player materialized
C27_FollowsPlayerAlways ==
    /\ [][MoveUpdates /\ StaysSettled]_vars
    /\ panPending ~> Settled

\* C27: every move pans the map and updates the cells, every moveend updates
\* them again, and after a move the map comes to rest, on the player with the
\* cells of the window around the player materialized unless the user has
\* dragged it away; the rest lasts until the next move of player or map
C27_FollowsPlayer ==
    /\ [][MoveUpdates /\ StaysSettled]_vars
    /\ panPending ~> (Settled \/ DraggedAway)

\* the moveend of a pan has been delivered away from the start: the map is
\* centred on the player and shows the window around it
C27_Witness ==
    /\ playerPos /= <<0, 0>>
    /\ ~panPending
    /\ mapCenter = playerPos
    /\ DOMAIN cellRecords = Window(playerPos)
    /\ DOMAIN cellRecords /= Window(<<0, 0>>)

(***************************************************************************)
(* The caches map and the resolver                                         *)
(***************************************************************************)
\* C28: between events a key is in the caches map exactly when its cell is
\* materialized and its resolved content (overlay entry if any, else
\* baseline) is a cache, and the value kept in the map is the resolved value
C28_CachesAgree ==
    \A k \in Cells \cup DOMAIN caches :
        /\ k \in DOMAIN caches <=> (Materialized(k) /\ Resolved(k) /= None)
        /\ k \in DOMAIN caches => Some(caches[k].value) = Resolved(k)

\* the map holds a cache whose value is an overlay token and not the
\* baseline, a materialized cell is kept empty by the overlay against its
\* baseline, and a cell with a cache to resolve is not materialized
C28_Witness ==
    /\ \E k \in DOMAIN caches :
          /\ k \in DOMAIN modifiedCaches
          /\ Some(caches[k].value) /= Baseline(k)
    /\ \E k \in DOMAIN cellRecords :
          /\ k \in DOMAIN modifiedCaches
          /\ modifiedCaches[k] = None
          /\ Baseline(k) /= None
          /\ k \notin DOMAIN caches
    /\ \E k \in Cells :
          /\ ~Materialized(k)
          /\ Resolved(k) /= None
          /\ k \notin DOMAIN caches

(***************************************************************************)
(* What sets the win flag                                                  *)
(***************************************************************************)
\* C29: the win flag starts false and changes only in a step that is a
\* successful merge crafting a value >= WIN_THRESHOLD, so a true flag always
\* has such a merge before it; pickups, drops, player moves and viewport
\* updates leave the flag as it is, whatever the values picked up, carried,
\* dropped or drawn
C29_OnlyMergeWins ==
    /\ ~hasCrafted
    /\ [][/\ hasCrafted' /= hasCrafted =>
                \E k \in DOMAIN caches :
                    /\ Place(k[1], k[2])
                    /\ inventory = Some(caches[k].value)
                    /\ msg' = <<"Placed token and crafted",
                                2 * caches[k].value>>
                    /\ 2 * caches[k].value >= WIN_THRESHOLD
          /\ (\/ ViewportStep
              \/ \E k \in Cells : Pickup(k[1], k[2])
              \/ \E k \in Cells : Drop(k[1], k[2])) => UNCHANGED hasCrafted
         ]_vars

\* a token at the threshold that the generator made has just been picked up,
\* its cell is drawn empty from the overlay, and there is no win
C29_Witness ==
    /\ ~hasCrafted
    /\ msg = <<"Picked up.">>
    /\ inventory /= None
    /\ inventory[1] >= WIN_THRESHOLD
    /\ \E k \in DOMAIN modifiedCaches :
          /\ modifiedCaches[k] = None
          /\ Baseline(k) = inventory

(***************************************************************************)
(* Quantization of the map window                                          *)
(***************************************************************************)
\* the half-open interval [n * TILE_DEGREES, (n + 1) * TILE_DEGREES) of cell
\* index n meets the closed interval [lo, hi]
Meets(n, lo, hi) ==
    \E x \in lo .. hi : n * TILE_DEGREES <= x /\ x < (n + 1) * TILE_DEGREES

\* the square of cell k meets the rectangle of the map window centred at c
Intersects(k, c) ==
    /\ Meets(k[1], c[1] - ViewHalfLat, c[1] + ViewHalfLat)
    /\ Meets(k[2], c[2] - ViewHalfLng, c[2] + ViewHalfLng)

\* the cells looked at: every window with a margin of cells around it
ProbeCells ==
    {<<i, j>> : i \in (-(ViewHalfLat + 1)) .. (MaxLat + ViewHalfLat + 1),
                j \in (-(ViewHalfLng + 1)) .. (MaxLng + ViewHalfLng + 1)}

\* C30: the cells wanted for the window of the map are exactly the cells
\* whose half-open square meets the closed rectangle of the window, none
\* missing and none wholly outside included, and they are the materialized
\* cells
C30_ViewportQuantization ==
    /\ Wanted(mapCenter) = {k \in ProbeCells : Intersects(k, mapCenter)}
    /\ DOMAIN cellRecords = Wanted(mapCenter)

\* the map has moved; its south edge cuts a row of cells, which is
\* materialized while the row below is not, and its north edge cuts a row,
\* which is materialized while the row above is not
C30_Witness ==
    /\ mapCenter /= <<0, 0>>
    /\ \A k \in DOMAIN cellRecords : Intersects(k, mapCenter)
    /\ \E k \in DOMAIN cellRecords :
           /\ k[1] * TILE_DEGREES < mapCenter[1] - ViewHalfLat
           /\ <<k[1] - 1, k[2]>> \notin DOMAIN cellRecords
           /\ ~Intersects(<<k[1] - 1, k[2]>>, mapCenter)
    /\ \E k \in DOMAIN cellRecords :
           /\ k[1] * TILE_DEGREES < mapCenter[1] + ViewHalfLat
           /\ mapCenter[1] + ViewHalfLat < (k[1] + 1) * TILE_DEGREES
           /\ <<k[1] + 1, k[2]>> \notin DOMAIN cellRecords

(***************************************************************************)
(* What a visible cell offers                                              *)
(***************************************************************************)
\* the rectangle of a materialized cell k carries the drop popup
OffersDrop(k) == cellRecords[k] = "drop"

\* the map shows a cache marker on cell k, with its pickup and place buttons
OffersPickupPlace(k) == k \in DOMAIN caches

\* the overlay records that the cache of cell k was taken
ExplicitlyEmpty(k) == k \in DOMAIN modifiedCaches /\ modifiedCaches[k] = None

\* C31, as claimed.  What a materialized cell offers follows from its
\* resolved content now: pickup and place exactly when it holds a cache,
\* drop exactly when it is explicitly empty, whatever it held when it was
\* drawn; a cell emptied by a pickup offers drop at once, as it does after
\* being drawn again, and a cell filled by a drop offers drop no longer.
C31_OfferedByContent ==
    \A k \in DOMAIN cellRecords :
        /\ OffersPickupPlace(k) <=> Resolved(k) /= None
        /\ OffersDrop(k) <=> ExplicitlyEmpty(k)

====
